---- MODULE Spec2Model ----
(***************************************************************************)
(* REMBO (ax/models/torch/rembo.py): Bayesian optimisation in a linear     *)
(* subspace.  The model covers the facade's own state (A, _pinvA, X_d,     *)
(* X_d_gen, bounds_d, num_outputs), every public method, and what each     *)
(* method hands to the BotorchModel it extends (the collaborator).         *)
(*                                                                         *)
(* Tensors hold exact rationals <<n, d>> (d > 0, lowest terms): tensor     *)
(* arithmetic is real arithmetic, and all floating-point slack is the      *)
(* tolerance of torch.allclose.  A 1-D tensor is a sequence of rationals,  *)
(* a 2-D tensor a sequence of rows.                                        *)
(***************************************************************************)
EXTENDS Integers, Sequences, FiniteSets, TLC

\* ---------------------------------------------------------------- bounds
\* gen is not offered once len(X_d) has reached MaxStore
MaxStore == 3
\* largest number of outcomes (len(Xs)) a caller passes
MaxOutcomes == 3
\* largest n a caller passes to gen
MaxGen == 2

\* ------------------------------------------------- tensor element arithmetic
Abs(n) == IF n < 0 THEN -n ELSE n

RECURSIVE Gcd(_, _)
Gcd(a, b) == IF b = 0 THEN a ELSE Gcd(b, a % b)

\* the rational n/d in lowest terms with a positive denominator (d # 0)
Q(n, d) ==
    LET s == IF d < 0 THEN -1 ELSE 1
        g == Gcd(Abs(n), Abs(d))
    IN  <<(s * n) \div g, (s * d) \div g>>

R(n) == <<n, 1>>
RAdd(p, q) == Q(p[1] * q[2] + q[1] * p[2], p[2] * q[2])
RSub(p, q) == Q(p[1] * q[2] - q[1] * p[2], p[2] * q[2])
RMul(p, q) == Q(p[1] * q[1], p[2] * q[2])
RDiv(p, q) == Q(p[1] * q[2], p[2] * q[1])
RAbs(p) == <<Abs(p[1]), p[2]>>
RLe(p, q) == p[1] * q[2] <= q[1] * p[2]

\* sum over i of u[i] * v[i]
RECURSIVE DotFrom(_, _, _)
DotFrom(u, v, i) ==
    IF i > Len(u) THEN R(0)
    ELSE RAdd(RMul(u[i], v[i]), DotFrom(u, v, i + 1))

Dot(u, v) == DotFrom(u, v, 1)

\* M @ x for a 2-D tensor M and a 1-D tensor x
MatVec(M, x) == [i \in 1..Len(M) |-> Dot(M[i], x)]

\* column j of a 2-D tensor
Column(M, j) == [i \in 1..Len(M) |-> M[i][j]]

\* torch.allclose(a, b) with its default rtol and atol, elementwise
\* |a - b| <= atol + rtol * |b|.  The defaults (1e-5, 1e-8) are scaled up to
\* the grid the model's points live on; the test keeps torch's asymmetric form.
rtol == Q(1, 16)
atol == Q(1, 4)

isclose(a, b) == RLe(RAbs(RSub(a, b)), RAdd(atol, RMul(rtol, RAbs(b))))

\* torch.allclose on two 1-D tensors of the same length
allclose(x, y) == \A i \in 1..Len(x) : isclose(x[i], y[i])

\* torch.allclose on two 2-D tensors of the same shape
allclose2(X, Y) == \A r \in 1..Len(X) : allclose(X[r], Y[r])

\* a clamp that lets every value through
clamp_none(z) == z

\* torch.clamp(z, min=-1, max=1) on one element
clamp(z) == IF RLe(z, R(-1)) THEN R(-1) ELSE IF RLe(R(1), z) THEN R(1) ELSE z

\* torch.pinverse(A) for a D x d matrix whose columns are mutually
\* orthogonal: row j is column j of A over its squared norm (0 for a zero
\* column).  Every matrix of Configs has one column.
pinverse(M) ==
    [j \in 1..Len(M[1]) |->
        LET c == Column(M, j)
            n == Dot(c, c)
        IN  [i \in 1..Len(M) |-> IF n = R(0) THEN R(0) ELSE RDiv(c[i], n)]]

\* ------------------------------------------------------------------ state
VARIABLES
    A,              \* self.A: the D x d projection matrix
    pinvA,          \* self._pinvA: its cached pseudo-inverse (d x D)
    X_d,            \* self.X_d: the low-d points launched so far
    X_d_gen,        \* self.X_d_gen: those this model generated
    bounds_d,       \* self.bounds_d: the low-d box, one <<lb, ub>> per column
    num_outputs,    \* self.num_outputs
    initial_X_d,    \* the initial_X_d the constructor was given
    model_fitted,   \* the collaborator holds a fitted model; until it does,
                    \* every call to it but fit raises
    fit_outcomes,   \* len(Xs) of the last fit that reached the collaborator
    pc,             \* the caller: "idle", or "done" with a finished call
    call            \* the finished call: its arguments, what it handed to
                    \* the collaborator and what it gave back to the caller

facade == <<A, pinvA, X_d, X_d_gen, bounds_d, num_outputs, initial_X_d>>
vars == <<A, pinvA, X_d, X_d_gen, bounds_d, num_outputs, initial_X_d,
          model_fitted, fit_outcomes, pc, call>>

\* ------------------------------------------------------------ construction
\* the (A, bounds_d) pairs a model is constructed with
Configs ==
    { [A |-> <<<<R(1)>>, <<R(0)>>, <<R(0)>>>>, bounds_d |-> <<<<R(-1), R(1)>>>>],
      [A |-> <<<<R(1)>>, <<R(2)>>>>,           bounds_d |-> <<<<R(-2), R(2)>>>>] }

\* the initial_X_d a model is constructed with
InitialChoices == { <<<<R(0)>>>>, <<<<R(0)>>, <<Q(1, 4)>>>> }

HighDim == Len(A)
LowDim == Len(A[1])

\* --------------------------------------------------------- pure methods
\* to_01: map the columns of X_d from bounds_d to [0, 1]
to_01(X) ==
    [r \in 1..Len(X) |->
        [i \in 1..Len(X[r]) |->
            IF i <= Len(bounds_d)
            THEN RDiv(RSub(X[r][i], bounds_d[i][1]),
                      RSub(bounds_d[i][2], bounds_d[i][1]))
            ELSE X[r][i]]]

\* from_01: map the columns of X_d01 from [0, 1] to bounds_d
from_01(X) ==
    [r \in 1..Len(X) |->
        [i \in 1..Len(X[r]) |->
            IF i <= Len(bounds_d)
            THEN RAdd(RMul(X[r][i], RSub(bounds_d[i][2], bounds_d[i][1])),
                      bounds_d[i][1])
            ELSE X[r][i]]]

\* project_up on a 1-D tensor: clamp(A @ x, -1, 1)
project_up_1d(x) == [i \in 1..HighDim |-> clamp(Dot(A[i], x))]

\* project_up on a 2-D tensor: clamp(t(A @ t(X)), -1, 1), row by row
project_up(X) == [r \in 1..Len(X) |-> project_up_1d(X[r])]

\* the inner loop of project_down with no match taken for a guess: the
\* first candidate still unmatched
first_match_guess(x_D, unmatched) ==
    LET hits == { k \in 1..Len(unmatched) :
                    allclose(x_D, project_up_1d(X_d[unmatched[k]])) }
    IN  IF hits # {}
        THEN unmatched[CHOOSE k \in hits : \A h \in hits : k <= h]
        ELSE IF unmatched # <<>> THEN unmatched[1] ELSE 0

\* the inner loop of project_down: the first d_idx of unmatched, in list
\* order, whose projection is allclose to x_D; 0 stands for None
first_match(x_D, unmatched) ==
    LET hits == { k \in 1..Len(unmatched) :
                    allclose(x_D, project_up_1d(X_d[unmatched[k]])) }
    IN  IF hits = {} THEN 0
        ELSE unmatched[CHOOSE k \in hits : \A h \in hits : k <= h]

\* unmatched.remove(idx_match)
remove(unmatched, idx) == SelectSeq(unmatched, LAMBDA e : e # idx)

\* the outer loop of project_down from row r on; idx collects the matches
RECURSIVE project_down_from(_, _, _, _)
project_down_from(X_D, r, unmatched, idx) ==
    IF r > Len(X_D)
    THEN [ok |-> idx # <<>>, idx |-> idx, unmatched |-> unmatched]
    ELSE LET m == first_match(X_D[r], unmatched)
         IN  IF m = 0
             THEN [ok |-> FALSE, idx |-> idx, unmatched |-> unmatched]
             ELSE project_down_from(X_D, r + 1, remove(unmatched, m),
                                    Append(idx, m))

\* project_down: ok is FALSE when it raises (ValueError on a row without a
\* match; torch.stack raises on an empty list); rows is the stacked result
project_down(X_D) ==
    LET res == project_down_from(X_D, 1, [i \in 1..Len(X_d) |-> i], <<>>)
    IN  [ok |-> res.ok,
         rows |-> [i \in 1..Len(res.idx) |-> X_d[res.idx[i]]],
         unmatched |-> res.unmatched]

\* _get_single_X passes: every Xs[i], i >= 1, is allclose to X = Xs[0]
get_single_X_ok(Xs) == \A i \in 2..Len(Xs) : allclose2(Xs[1], Xs[i])

\* [X] * k
replicate(X, k) == [i \in 1..k |-> X]

\* list.extend with the new rows put in front
extend_front(list, rows) == rows \o list

\* list.extend(rows)
extend(list, rows) == list \o rows

\* ------------------------------------------------------ what callers pass
\* the rows of width w over the values of S
RowsOver(S, w) == [1..w -> S]

\* the orderings of the rows of X
Shuffles(X) ==
    { [i \in 1..Len(X) |-> X[p[i]]] :
        p \in { f \in [1..Len(X) -> 1..Len(X)] :
                  \A i, j \in 1..Len(X) : f[i] = f[j] => i = j } }

\* every row of X moved by delta along its first coordinate
shifted(X, delta) ==
    [r \in 1..Len(X) |-> [X[r] EXCEPT ![1] = RAdd(X[r][1], delta)]]

\* low-d values a caller probes with
ProbeValues == { R(0), Q(1, 4), Q(1, 2), R(2) }

\* high-D rows outside the stored projections: off the span of A, and on
\* the span but outside the box (A @ [2], not clamped)
OffRows == { [i \in 1..HighDim |-> Q(3, 4)], MatVec(A, <<R(2)>>) }

\* the high-D rows a caller queries
HighRows == { project_up_1d(z) : z \in RowsOver(ProbeValues, LowDim) } \cup OffRows

\* the X_D batches a caller passes: the launched points in any order, one
\* row, or one launched row twice
Batches ==
    (IF X_d = <<>> THEN {} ELSE Shuffles(project_up(X_d)))
    \cup { <<x>> : x \in HighRows }
    \cup { <<project_up_1d(X_d[i]), project_up_1d(X_d[i])>> : i \in 1..Len(X_d) }

\* the Xs a caller passes: any batch for one outcome, the launched points
\* for several outcomes, or the launched points with the later outcomes'
\* copies moved by about the tolerance
XsInputs ==
    LET X0 == project_up(X_d)
    IN  { <<B>> : B \in Batches }
        \cup (IF X_d = <<>> THEN {}
              ELSE { replicate(X0, k) : k \in 2..MaxOutcomes })
        \cup (IF X_d = <<>> \/ MaxOutcomes < 3 THEN {}
              ELSE { <<X0, shifted(X0, atol)>>,
                     <<X0, shifted(X0, RAdd(atol, atol))>>,
                     <<X0, shifted(X0, RSub(R(0), atol)), shifted(X0, atol)>> })

\* the (Xs_train, X_test) a caller passes to cross_validate: any Xs with
\* the first launched point as the test row, or the launched points as the
\* training data with any batch as the test rows
CrossValidateInputs ==
    IF X_d = <<>> THEN { <<Xs, Xs[1]>> : Xs \in XsInputs }
    ELSE { <<Xs, <<project_up_1d(X_d[1])>>>> : Xs \in XsInputs }
         \cup { <<<<project_up(X_d)>>, T>> : T \in Batches }

\* the arguments beside the tensors: the declared bounds, and whether each
\* unsupported feature is supplied
NoArgs ==
    [bounds |-> <<>>, task |-> FALSE, fidelity |-> FALSE,
     linear |-> FALSE, fixed |-> FALSE, pending |-> FALSE]

BoxBounds == [i \in 1..HighDim |-> <<-1, 1>>]
OtherBounds == { [i \in 1..HighDim |-> <<0, 1>>], [BoxBounds EXCEPT ![HighDim] = <<-1, 2>>] }

OkArgs == [NoArgs EXCEPT !.bounds = BoxBounds]

FitArgs ==
    { OkArgs, [OkArgs EXCEPT !.task = TRUE], [OkArgs EXCEPT !.fidelity = TRUE] }
    \cup { [OkArgs EXCEPT !.bounds = b] : b \in OtherBounds }

BestPointArgs ==
    { OkArgs, [OkArgs EXCEPT !.linear = TRUE], [OkArgs EXCEPT !.fixed = TRUE] }
    \cup { [OkArgs EXCEPT !.bounds = b] : b \in OtherBounds }

GenArgs == BestPointArgs \cup { [OkArgs EXCEPT !.pending = TRUE] }

\* the (Xs, arguments) a caller passes to fit: any Xs with a valid digest,
\* or the launched points with any digest
FitInputs ==
    { <<Xs, OkArgs>> : Xs \in XsInputs }
    \cup { <<replicate(project_up(X_d), k), a>> : k \in 1..MaxOutcomes, a \in FitArgs }

\* what the collaborator may return as a unit-box coordinate; 3/2 is
\* outside the unit box
CandidateValues == { Q(3, 4), Q(3, 2) }

\* ----------------------------------------------------------- call records
NoCall ==
    [op |-> "none", status |-> "none", Xs |-> <<>>, X |-> <<>>, n |-> 0,
     args |-> NoArgs, called |-> FALSE, sent |-> <<>>, sentX |-> <<>>,
     sentBounds |-> <<>>, got |-> <<>>, ret |-> <<>>]

Init ==
    /\ \E c \in Configs, x0 \in InitialChoices :
          /\ A = c.A
          /\ pinvA = pinverse(c.A)
          /\ X_d = x0
          /\ initial_X_d = x0
          /\ bounds_d = c.bounds_d
    /\ X_d_gen = <<>>
    /\ num_outputs = 0
    /\ model_fitted = FALSE
    /\ fit_outcomes = 0
    /\ pc = "idle"
    /\ call = NoCall

\* the caller takes the result (or the exception) and is free to call again
Return ==
    /\ pc = "done"
    /\ pc' = "idle"
    /\ call' = NoCall
    /\ UNCHANGED <<facade, model_fitted, fit_outcomes>>

\* ---------------------------------------------------------------- methods
\* the asserts that open fit
fit_precondition(a) ==
    /\ ~a.task
    /\ ~a.fidelity
    /\ \A i \in 1..Len(a.bounds) : a.bounds[i] = <<-1, 1>>

\* the asserts that open gen, with pending_observations let through
gen_precondition_lax(a) ==
    /\ \A i \in 1..Len(a.bounds) : a.bounds[i] = <<-1, 1>>
    /\ ~a.linear
    /\ ~a.fixed

\* the asserts that open gen
gen_precondition(a) ==
    /\ \A i \in 1..Len(a.bounds) : a.bounds[i] = <<-1, 1>>
    /\ ~a.linear
    /\ ~a.fixed
    /\ ~a.pending

\* the asserts that open best_point
best_point_precondition(a) ==
    /\ \A i \in 1..Len(a.bounds) : a.bounds[i] = <<-1, 1>>
    /\ ~a.linear
    /\ ~a.fixed

\* [(0.0, 1.0)] * len(self.bounds_d)
unit_bounds == [i \in 1..Len(bounds_d) |-> <<R(0), R(1)>>]

\* REMBO.fit; raises: the collaborator's fit raises
fit ==
    /\ pc = "idle"
    /\ \E inp \in FitInputs, raises \in BOOLEAN :
          LET Xs == inp[1]
              a == inp[2]
              c0 == [NoCall EXCEPT !.op = "fit", !.Xs = Xs, !.args = a]
              pd == project_down(Xs[1])
          IN  IF ~fit_precondition(a)
              THEN /\ call' = [c0 EXCEPT !.status = "assert_precondition"]
                   /\ UNCHANGED <<num_outputs, model_fitted, fit_outcomes>>
              ELSE /\ num_outputs' = Len(Xs)
                   /\ IF ~get_single_X_ok(Xs)
                      THEN /\ call' = [c0 EXCEPT !.status = "assert_single_X"]
                           /\ UNCHANGED <<model_fitted, fit_outcomes>>
                      ELSE IF ~pd.ok
                      THEN /\ call' = [c0 EXCEPT !.status = "ValueError"]
                           /\ UNCHANGED <<model_fitted, fit_outcomes>>
                      ELSE /\ call' = [c0 EXCEPT
                                  !.status = IF raises THEN "collaborator_raised"
                                             ELSE "ok",
                                  !.called = TRUE,
                                  !.sent = replicate(to_01(pd.rows), Len(Xs)),
                                  !.sentBounds = unit_bounds]
                           /\ model_fitted' = (model_fitted \/ ~raises)
                           /\ fit_outcomes' = Len(Xs)
    /\ pc' = "done"
    /\ UNCHANGED <<A, pinvA, X_d, X_d_gen, bounds_d, initial_X_d>>

\* REMBO.predict; X has the low-d width or the high-D width
predict ==
    /\ pc = "idle"
    /\ \E x \in RowsOver(ProbeValues, LowDim) \cup HighRows, raises \in BOOLEAN :
          LET X == <<x>>
              c0 == [NoCall EXCEPT !.op = "predict", !.X = X]
              Xlow == IF Len(X[1]) = LowDim THEN X
                      ELSE [r \in 1..Len(X) |-> MatVec(pinvA, X[r])]
              back == [r \in 1..Len(X) |-> MatVec(A, Xlow[r])]
          IN  IF Len(X[1]) # LowDim /\ ~allclose2(X, back)
              THEN call' = [c0 EXCEPT !.status = "NotImplementedError"]
              ELSE call' = [c0 EXCEPT
                       !.status = IF raises \/ ~model_fitted
                                  THEN "collaborator_raised" ELSE "ok",
                       !.called = TRUE,
                       !.sentX = to_01(Xlow)]
    /\ pc' = "done"
    /\ UNCHANGED <<facade, model_fitted, fit_outcomes>>

\* REMBO.gen; got: the n unit-box candidates the collaborator returns
gen ==
    /\ pc = "idle"
    /\ \E n \in 1..MaxGen, a \in GenArgs, raises \in BOOLEAN :
          /\ Len(X_d) + n <= MaxStore
          /\ \E got \in [1..n -> RowsOver(CandidateValues, LowDim)] :
                LET c0 == [NoCall EXCEPT !.op = "gen", !.n = n, !.args = a]
                    Xopt == from_01(got)
                IN  IF ~gen_precondition(a)
                    THEN /\ call' = [c0 EXCEPT !.status = "assert_precondition"]
                         /\ UNCHANGED <<X_d, X_d_gen>>
                    ELSE IF raises \/ ~model_fitted
                    THEN /\ call' = [c0 EXCEPT !.status = "collaborator_raised",
                                               !.called = TRUE,
                                               !.sentBounds = unit_bounds]
                         /\ UNCHANGED <<X_d, X_d_gen>>
                    ELSE /\ X_d' = extend(X_d, Xopt)
                         /\ X_d_gen' = extend(X_d_gen, Xopt)
                         /\ call' = [c0 EXCEPT !.status = "ok",
                                               !.called = TRUE,
                                               !.sentBounds = unit_bounds,
                                               !.got = got,
                                               !.ret = project_up(Xopt)]
    /\ pc' = "done"
    /\ UNCHANGED <<A, pinvA, bounds_d, num_outputs, initial_X_d,
                   model_fitted, fit_outcomes>>

\* REMBO.best_point; got: << >> when the collaborator returns None, else
\* <<x_best>>
best_point ==
    /\ pc = "idle"
    /\ \E a \in BestPointArgs, raises \in BOOLEAN,
          got \in {<<>>} \cup { <<x>> : x \in RowsOver(CandidateValues, LowDim) } :
          LET c0 == [NoCall EXCEPT !.op = "best_point", !.args = a]
          IN  IF ~best_point_precondition(a)
              THEN call' = [c0 EXCEPT !.status = "assert_precondition"]
              ELSE IF raises \/ ~model_fitted
              THEN call' = [c0 EXCEPT !.status = "collaborator_raised",
                                      !.called = TRUE,
                                      !.sentBounds = bounds_d]
              ELSE call' = [c0 EXCEPT !.status = "ok",
                                      !.called = TRUE,
                                      !.sentBounds = bounds_d,
                                      !.got = got,
                                      !.ret = IF got = <<>> THEN <<>>
                                              ELSE project_up(from_01(got))]
    /\ pc' = "done"
    /\ UNCHANGED <<facade, model_fitted, fit_outcomes>>

\* REMBO.cross_validate
cross_validate ==
    /\ pc = "idle"
    /\ \E inp \in CrossValidateInputs, raises \in BOOLEAN :
          LET Xs == inp[1]
              X_test == inp[2]
              c0 == [NoCall EXCEPT !.op = "cross_validate", !.Xs = Xs,
                                   !.X = X_test]
              train == project_down(Xs[1])
              test == project_down(X_test)
          IN  IF ~get_single_X_ok(Xs)
              THEN call' = [c0 EXCEPT !.status = "assert_single_X"]
              ELSE IF ~train.ok \/ ~test.ok
              THEN call' = [c0 EXCEPT !.status = "ValueError"]
              ELSE call' = [c0 EXCEPT
                       !.status = IF raises \/ ~model_fitted
                                  THEN "collaborator_raised" ELSE "ok",
                       !.called = TRUE,
                       !.sent = replicate(to_01(train.rows), num_outputs),
                       !.sentX = to_01(test.rows)]
    /\ pc' = "done"
    /\ UNCHANGED <<facade, model_fitted, fit_outcomes>>

\* REMBO.update with the matched points taken out of the store
update_consuming ==
    /\ pc = "idle"
    /\ \E Xs \in XsInputs, raises \in BOOLEAN :
          LET c0 == [NoCall EXCEPT !.op = "update", !.Xs = Xs]
              pd == project_down(Xs[1])
          IN  IF ~get_single_X_ok(Xs)
              THEN /\ call' = [c0 EXCEPT !.status = "assert_single_X"]
                   /\ X_d' = X_d
              ELSE IF ~pd.ok
              THEN /\ call' = [c0 EXCEPT !.status = "ValueError"]
                   /\ X_d' = X_d
              ELSE /\ call' = [c0 EXCEPT
                          !.status = IF raises \/ ~model_fitted
                                     THEN "collaborator_raised" ELSE "ok",
                          !.called = TRUE,
                          !.sent = replicate(to_01(pd.rows), num_outputs)]
                   /\ X_d' = [i \in 1..Len(pd.unmatched) |-> X_d[pd.unmatched[i]]]
    /\ pc' = "done"
    /\ UNCHANGED <<A, pinvA, X_d_gen, bounds_d, num_outputs, initial_X_d,
                   model_fitted, fit_outcomes>>

\* REMBO.update
update ==
    /\ pc = "idle"
    /\ \E Xs \in XsInputs, raises \in BOOLEAN :
          LET c0 == [NoCall EXCEPT !.op = "update", !.Xs = Xs]
              pd == project_down(Xs[1])
          IN  IF ~get_single_X_ok(Xs)
              THEN call' = [c0 EXCEPT !.status = "assert_single_X"]
              ELSE IF ~pd.ok
              THEN call' = [c0 EXCEPT !.status = "ValueError"]
              ELSE call' = [c0 EXCEPT
                       !.status = IF raises \/ ~model_fitted
                                  THEN "collaborator_raised" ELSE "ok",
                       !.called = TRUE,
                       !.sent = replicate(to_01(pd.rows), num_outputs)]
    /\ pc' = "done"
    /\ UNCHANGED <<facade, model_fitted, fit_outcomes>>

\* a direct call of REMBO.project_down
call_project_down ==
    /\ pc = "idle"
    /\ \E X_D \in Batches :
          LET c0 == [NoCall EXCEPT !.op = "project_down", !.X = X_D]
              pd == project_down(X_D)
          IN  IF ~pd.ok
              THEN call' = [c0 EXCEPT !.status = "ValueError"]
              ELSE call' = [c0 EXCEPT !.status = "ok", !.ret = pd.rows]
    /\ pc' = "done"
    /\ UNCHANGED <<facade, model_fitted, fit_outcomes>>

Next ==
    \/ fit
    \/ predict
    \/ gen
    \/ best_point
    \/ cross_validate
    \/ update
    \/ call_project_down
    \/ Return

Spec == Init /\ [][Next]_vars

\* ------------------------------------------------------------- properties
\* the set of elements of a sequence
Range(s) == { s[i] : i \in 1..Len(s) }

\* s and t hold the same elements, each as many times
SameElements(s, t) ==
    /\ Len(s) = Len(t)
    /\ \A v \in Range(s) \cup Range(t) :
          Cardinality({ i \in 1..Len(s) : s[i] = v })
              = Cardinality({ i \in 1..Len(t) : t[i] = v })

\* the high-D row x is within tolerance of the projection of the low-d point z
Close(x, z) == allclose(x, project_up_1d(z))

\* in store order, first match wins: the stored point row i of X takes,
\* the least index within tolerance that no earlier row took; 0 if none
RECURSIVE Taken(_, _, _)
Taken(X, S, i) ==
    LET used == { Taken(X, S, j) : j \in 1..(i - 1) }
        free == { k \in 1..Len(S) : k \notin used /\ Close(X[i], S[k]) }
    IN  IF free = {} THEN 0
        ELSE CHOOSE k \in free : \A h \in free : k <= h

\* some row of X finds no stored point that is within tolerance and was
\* not taken by an earlier row
NoCandidateLeft(X, S) == \E r \in 1..Len(X) : Taken(X, S, r) = 0

\* the batches the finished call c resolves against the store S, one of
\* which leaves a row without a candidate
Unresolvable(c, S) ==
    \/ c.op = "project_down" /\ NoCandidateLeft(c.X, S)
    \/ c.op \in {"fit", "update"} /\ NoCandidateLeft(c.Xs[1], S)
    \/ c.op = "cross_validate"
          /\ (NoCandidateLeft(c.Xs[1], S) \/ NoCandidateLeft(c.X, S))

BadBounds(a) == \E i \in 1..Len(a.bounds) : a.bounds[i] # <<-1, 1>>

\* the finished call c was made in violation of its method's preconditions
Violation(c) ==
    \/ c.op = "fit" /\ (c.args.task \/ c.args.fidelity \/ BadBounds(c.args))
    \/ c.op \in {"gen", "best_point"}
          /\ (BadBounds(c.args) \/ c.args.linear \/ c.args.fixed \/ c.args.pending)

InBox(row) == \A i \in 1..Len(row) : RLe(R(-1), row[i]) /\ RLe(row[i], R(1))

\* C1: project_down applied to the projections of the stored points, in any
\* order, succeeds and returns every stored point exactly once.
C1_ShuffledProjectionsResolve ==
    (pc = "done" /\ call.op = "project_down"
        /\ call.X \in Shuffles(project_up(X_d)))
    => (call.status = "ok" /\ SameElements(call.ret, X_d))

\* C2: a batch with a row that has no stored candidate left within
\* tolerance makes project_down raise ValueError; fit, update and
\* cross_validate then fail without calling the collaborator and without
\* changing the store.  What project_down does return is never a guess:
\* row i of the result is a stored point whose projection is within
\* tolerance of row i of the batch, no stored entry serving two rows.
C2_UnresolvableFails ==
    /\ [][ (pc' = "done" /\ Unresolvable(call', X_d))
           => /\ call'.status \in {"ValueError", "assert_single_X",
                                   "assert_precondition"}
              /\ (call'.op = "project_down" => call'.status = "ValueError")
              /\ ~call'.called
              /\ call'.ret = <<>>
              /\ X_d' = X_d
              /\ X_d_gen' = X_d_gen ]_vars
    /\ []( (pc = "done" /\ call.op = "project_down" /\ call.status = "ok")
           => /\ Len(call.ret) = Len(call.X)
              /\ \A i \in 1..Len(call.X) : Close(call.X[i], call.ret[i])
              /\ \E f \in [1..Len(call.ret) -> 1..Len(X_d)] :
                    /\ \A i, j \in 1..Len(call.ret) : f[i] = f[j] => i = j
                    /\ \A i \in 1..Len(call.ret) : X_d[f[i]] = call.ret[i] )

C2_Witness ==
    /\ pc = "done"
    /\ call.op = "update"
    /\ call.status = "ValueError"
    /\ \A i \in 1..Len(X_d) : ~Close(call.Xs[1][1], X_d[i])

\* C3: X_d is the constructor's points followed by X_d_gen; a step either
\* leaves both lists alone or is a successful gen(n) that appends the n
\* candidates the collaborator returned, mapped by from_01, to both.
C3_StoreIsInitialThenGenerated ==
    /\ [](X_d = initial_X_d \o X_d_gen)
    /\ [][ \/ X_d' = X_d /\ X_d_gen' = X_d_gen
           \/ /\ call'.op = "gen"
              /\ call'.status = "ok"
              /\ Len(call'.got) = call'.n
              /\ X_d' = X_d \o from_01(call'.got)
              /\ X_d_gen' = X_d_gen \o from_01(call'.got) ]_vars

C3_Witness ==
    /\ pc = "done"
    /\ call.op = "gen"
    /\ call.status = "ok"
    /\ call.n = 2
    /\ initial_X_d # <<>>
    /\ X_d_gen = from_01(call.got)
    /\ X_d = initial_X_d \o from_01(call.got)

\* C4: a call of fit, gen or best_point that violates a precondition fails
\* on the assert, with no call to the collaborator and with X_d, X_d_gen
\* and num_outputs as they were.
C4_PreconditionFailsClean ==
    [][ (pc' = "done" /\ Violation(call'))
        => /\ call'.status = "assert_precondition"
           /\ ~call'.called
           /\ X_d' = X_d
           /\ X_d_gen' = X_d_gen
           /\ num_outputs' = num_outputs ]_vars

C4_Witness ==
    /\ pc = "done"
    /\ call.op = "fit"
    /\ call.args.fidelity
    /\ call.status = "assert_precondition"
    /\ Len(call.Xs) # num_outputs

\* C5: predict on a high-D x that is not within tolerance of
\* project_up(x @ t(pinv(A))), clamp included, raises NotImplementedError and
\* does not call the collaborator.
C5_PredictChecksClampedReprojection ==
    (pc = "done" /\ call.op = "predict" /\ Len(call.X[1]) # LowDim
        /\ ~allclose2(call.X,
              project_up([r \in 1..Len(call.X) |-> MatVec(pinvA, call.X[r])])))
    => (call.status = "NotImplementedError" /\ ~call.called)

\* C6: fit, update and cross_validate fail on the check of Xs, with nothing
\* resolved or delegated, whenever any two matrices of Xs differ beyond
\* tolerance.
C6_AnyTwoOutcomesCompared ==
    (pc = "done" /\ call.op \in {"fit", "update", "cross_validate"}
        /\ \E i, j \in 1..Len(call.Xs) : ~allclose2(call.Xs[i], call.Xs[j]))
    => (call.status \in {"assert_single_X", "assert_precondition"} /\ ~call.called)

\* C7: update hands the collaborator what fit would for the same store and
\* Xs: one copy of the resolved unit-box matrix for each matrix of Xs.
C7_UpdateDelegatesAsFit ==
    (pc = "done" /\ call.op = "update" /\ call.called)
    => call.sent = replicate(to_01(project_down(call.Xs[1]).rows), Len(call.Xs))

\* C8: update, cross_validate, predict, best_point and project_down leave
\* X_d, X_d_gen, num_outputs, A, _pinvA and bounds_d as they were, and a
\* batch resolved again after the call gives what the call gave.
C8_ReadOnlyMethods ==
    /\ [][ (pc' = "done"
             /\ call'.op \in {"update", "cross_validate", "predict",
                              "best_point", "project_down"})
           => UNCHANGED <<X_d, X_d_gen, num_outputs, A, pinvA, bounds_d>> ]_vars
    /\ []( (pc = "done" /\ call.op = "project_down" /\ call.status = "ok")
           => (project_down(call.X).ok /\ project_down(call.X).rows = call.ret) )
    /\ []( (pc = "done" /\ call.op = "update" /\ call.called)
           => project_down(call.Xs[1]).ok )

C8_Witness ==
    /\ pc = "done"
    /\ call.op = "update"
    /\ call.status = "ok"
    /\ Len(X_d) >= 2
    /\ Len(call.Xs[1]) = Len(X_d)

\* C9: every coordinate of project_up(X) lies in [-1, 1], and so does every
\* coordinate of what gen and best_point return, also for candidates the
\* collaborator returns outside the unit box.
C9_ProjectionInBox ==
    /\ \A z \in RowsOver(ProbeValues \cup {R(-2), Q(-3, 4), R(5)}, LowDim) :
          InBox(project_up_1d(z))
    /\ (pc = "done" /\ call.op \in {"gen", "best_point"} /\ call.status = "ok")
       => \A r \in 1..Len(call.ret) : InBox(call.ret[r])

C9_Witness ==
    /\ pc = "done"
    /\ call.op = "gen"
    /\ call.status = "ok"
    /\ \E r \in 1..Len(call.got) :
          /\ ~RLe(call.got[r][1], R(1))
          /\ \E i \in 1..HighDim :
                /\ ~RLe(Dot(A[i], from_01(call.got)[r]), R(1))
                /\ call.ret[r][i] = R(1)

\* C10: num_outputs is the number of outcomes of the last fit that reached
\* the collaborator, 0 if none did: a fit that fails in this layer leaves
\* it as it was.
C10_FailedFitKeepsNumOutputs == num_outputs = fit_outcomes

====
